---- MODULE Spec2Model ----
(***************************************************************************)
(* Chronologicon engine: the streaming ingestion pipeline                  *)
(* (ingestionService.js), the ingestion job store (IngestionJob.js), the   *)
(* line validator (validators.js) and the event repository                 *)
(* (HistoricalEvent.js over the historical_events table).                  *)
(*                                                                         *)
(* Every `await query(...)` of the code is one step of the model: it       *)
(* either takes effect as one SQL statement, or is rejected by the         *)
(* database and throws without effect.  The steps of one run are ordered   *)
(* by the awaits of processFile; the steps of different runs and the       *)
(* status queries interleave freely.                                       *)
(***************************************************************************)
EXTENDS Integers, Sequences, FiniteSets, TLC

VARIABLES
    source,      \* source[j]: the lines of the file job j was started on
    pc,          \* pc[j]: where the run of job j stands
    jobs,        \* table ingestion_jobs: job id -> row
    events,      \* table historical_events: event id -> row
    lineNumber,  \* processFile's lineNumber
    eventData,   \* processFile's eventData (result of parseEventLine)
    errorMessage,\* processFile's / markFailed's errorMessage
    errSnap,     \* addError's local `errors`, read by findById
    fatal,       \* the error that rejected startIngestion or processFile
    returned,    \* startIngestion has returned jobId to its caller
    clock,       \* the wall clock read by new Date()
    snapshot,    \* the result of the last getJobStatus
    completed,   \* the tracker invocations made and completed (SpecTracker)
    response     \* the answer to the last analytics query (SpecQuery)

vars == <<source, pc, jobs, events, lineNumber, eventData, errorMessage,
          errSnap, fatal, returned, clock, snapshot, completed, response>>

\* ---------------------------------------------------------------- bounds

\* Longest source file, in lines.
MaxLines == 3

\* The ingestion runs (each gets its own generated job id).
JobIds == {"job1", "job2"}

\* The runs started under Spec.
Runs == {"job1"}

\* Strings that match the UUID pattern of validateUUID.
EventIds == {"e1", "e2", "e3"}

Null == "<null>"

\* ------------------------------------------------- validators.js

\* Seconds in a minute: the code divides milliseconds by 1000 * 60; the model
\* counts time in seconds.
SecondsPerMinute == 60

\* Number of fields parseEventLine destructures.
ExpectedFields == 7

\* A source line.  blank: line.trim() is empty.  nf: the length of
\* line.split('|').  id, parent: the text of the field.  start, end: the instant
\* (in seconds) the text denotes, negative when the text is no ISO-8601 date.
\* rv: <<the text is numeric, its value>>.  name, description: the text of the
\* field.
Line(blank, nf, id, name, start, end, parent, rv, description) ==
    [blank |-> blank, nf |-> nf, id |-> id, name |-> name, start |-> start,
     end |-> end, parent |-> parent, rv |-> rv, description |-> description]

validateUUID(uuid) == uuid \in EventIds

validateISODate(dateString) == dateString >= 0

toUpperCase(s) == IF s = "null" THEN "NULL" ELSE s

\* String.prototype.trim on the texts the sources use.
trim(s) ==
    CASE s = " Alpha " -> "Alpha"
      [] s = "Omega " -> "Omega"
      [] s = " revised" -> "revised"
      [] OTHER -> s

NoEvent ==
    [event_id |-> Null, event_name |-> "", description |-> "", start_date |-> 0,
     end_date |-> 0, duration_minutes |-> 0, parent_event_id |-> Null,
     research_value |-> 0, line_number |-> 0]

\* Mutant of durationMinutes: Math.round in place of Math.floor.
durationMinutesRounded(start, end) ==
    (2 * (end - start) + SecondsPerMinute) \div (2 * SecondsPerMinute)

\* Math.floor((endDateTime - startDateTime) / (1000 * 60))
durationMinutes(start, end) == (end - start) \div SecondsPerMinute

ParseError(message) == [ok |-> FALSE, error |-> message, event |-> NoEvent]

parseEventLine(line, n) ==
    IF line.nf < ExpectedFields THEN ParseError("Insufficient fields")
    ELSE IF ~validateUUID(line.id) THEN ParseError("Invalid UUID format for event_id")
    ELSE IF ~validateISODate(line.start) THEN ParseError("Invalid date format for start_date")
    ELSE IF ~validateISODate(line.end) THEN ParseError("Invalid date format for end_date")
    ELSE IF line.end <= line.start THEN ParseError("end_date must be after start_date")
    ELSE IF line.parent # "" /\ toUpperCase(line.parent) # "NULL" /\ ~validateUUID(line.parent)
         THEN ParseError("Invalid UUID format for parent_id")
    ELSE IF ~line.rv[1] THEN ParseError("Invalid research_value")
    ELSE IF line.rv[2] < 0 THEN ParseError("research_value cannot be negative")
    ELSE [ok |-> TRUE, error |-> "",
          event |-> [event_id |-> line.id,
                     event_name |-> trim(line.name),
                     description |-> trim(line.description),
                     start_date |-> line.start,
                     end_date |-> line.end,
                     duration_minutes |-> durationMinutes(line.start, line.end),
                     parent_event_id |->
                         IF line.parent # "" /\ toUpperCase(line.parent) # "NULL"
                         THEN line.parent ELSE Null,
                     research_value |-> line.rv[2],
                     line_number |-> n]]

\* ------------------------------------------------- the sources ingested

BlankLine == Line(TRUE, 1, "", "", 0, 0, "", <<FALSE, 0>>, "")
ShortLine == Line(FALSE, 3, "e1", " Alpha ", 0, 90, "", <<FALSE, 0>>, "")
RootLine  == Line(FALSE, 7, "e1", " Alpha ", 0, 90, "NULL", <<TRUE, 5>>, "first")
ChildLine == Line(FALSE, 7, "e2", "Beta", 60, 180, "e1", <<TRUE, 3>>, "second")

Lines == {BlankLine, ShortLine, RootLine, ChildLine}

RECURSIVE SeqsUpTo(_, _)
SeqsUpTo(S, n) ==
    IF n = 0 THEN {<<>>}
    ELSE LET shorter == SeqsUpTo(S, n - 1)
         IN  shorter \cup {Append(f, x) : f \in {g \in shorter : Len(g) = n - 1}, x \in S}

Files == SeqsUpTo(Lines, MaxLines)

\* ------------------------------------------------- IngestionJob.js

Terminal == {"COMPLETED", "FAILED"}

\* Mutant of JobCreateRow: total_lines is not passed on and takes its default.
JobCreateRowDefaultTotal(total_lines) ==
    [status |-> "PENDING", processed_lines |-> 0, error_lines |-> 0,
     total_lines |-> 0, errors |-> <<>>, end_time |-> 0]

\* INSERT INTO ingestion_jobs (job_id, status, file_path, total_lines); the other
\* columns take the defaults of the schema.
JobCreateRow(total_lines) ==
    [status |-> "PENDING", processed_lines |-> 0, error_lines |-> 0,
     total_lines |-> total_lines, errors |-> <<>>, end_time |-> 0]

\* Mutant of UpdateStatusRow: the additional fields are not written.
UpdateStatusRowOnly(row, status, end_time) == [row EXCEPT !.status = status]

\* UPDATE ingestion_jobs SET status = $2 [, end_time = $3]; end_time = 0 stands
\* for additionalData without end_time.
UpdateStatusRow(row, status, end_time) ==
    IF end_time = 0 THEN [row EXCEPT !.status = status]
    ELSE [row EXCEPT !.status = status, !.end_time = end_time]

\* Mutant of AddErrorRow: the message is put in front of the array.
AddErrorRowInFront(row, errors, message) ==
    [row EXCEPT !.errors = <<message>> \o errors, !.error_lines = @ + 1]

\* Mutant of AddErrorRow: the UPDATE stores the array and leaves the counter.
AddErrorRowAppendOnly(row, errors, message) ==
    [row EXCEPT !.errors = Append(errors, message)]

\* UPDATE ingestion_jobs SET errors = $2, error_lines = error_lines + 1, where $2
\* is the errors array addError read before, with the message pushed.
AddErrorRow(row, errors, message) ==
    [row EXCEPT !.errors = Append(errors, message), !.error_lines = @ + 1]

\* UPDATE ingestion_jobs SET processed_lines = processed_lines + 1
IncrementProcessedRow(row) == [row EXCEPT !.processed_lines = @ + 1]

\* ------------------------------------------------- HistoricalEvent.js

\* parent_event_id UUID REFERENCES historical_events(event_id): the reference is
\* checked at the end of the statement, so a row may reference itself.
ForeignKeyHolds(ev) ==
    \/ ev.parent_event_id = Null
    \/ ev.parent_event_id \in DOMAIN events
    \/ ev.parent_event_id = ev.event_id

\* CHECK (duration_minutes >= 0), CHECK (end_date > start_date)
ChecksHold(ev) == ev.duration_minutes >= 0 /\ ev.end_date > ev.start_date

\* The constraints of historical_events the statement must satisfy.
RowAccepted(ev) == ForeignKeyHolds(ev) /\ ChecksHold(ev)

\* Mutant of Upsert: on a conflict research_value is left as stored.
UpsertKeepsValue(table, ev) ==
    [id \in DOMAIN table \cup {ev.event_id} |->
        IF id # ev.event_id THEN table[id]
        ELSE IF id \in DOMAIN table
             THEN [ev EXCEPT !.research_value = table[id].research_value]
             ELSE ev]

\* Mutant of Upsert: ON CONFLICT (event_id) DO NOTHING.
UpsertDoNothing(table, ev) ==
    [id \in DOMAIN table \cup {ev.event_id} |->
        IF id \in DOMAIN table THEN table[id] ELSE ev]

\* INSERT ... ON CONFLICT (event_id) DO UPDATE SET every column = EXCLUDED.column
Upsert(table, ev) ==
    [id \in DOMAIN table \cup {ev.event_id} |->
        IF id = ev.event_id THEN ev ELSE table[id]]

\* ------------------------------------------------- ingestionService.js

EmptyTable == [id \in {} |-> id]

NoMessage == [line |-> 0, text |-> ""]

\* `Line ${lineNumber}: ${error.message}`
ErrorLine(n, text) == [line |-> n, text |-> text]

\* error.message of the error that rejected processFile; it carries no line prefix.
FatalMessage(cause) == [line |-> 0, text |-> cause]

NoSnapshot == [found |-> FALSE, row |-> JobCreateRow(0)]

NoCalls == [begun |-> 0, adds |-> {}, incs |-> 0]

NoResponse == [op |-> "none"]

\* Mutant of countFileLines: blank lines are not counted.
countNonBlankLines(f) == Cardinality({n \in 1..Len(f) : ~f[n].blank})

\* rl.on('line', () => lineCount++): one per line of the file, blank or not.
countFileLines(f) == Len(f)

\* uuidv4() never repeats: the runs take their job ids in this order.
JobOrder == <<"job1", "job2">>

MayStart(j) ==
    \A i \in 1..Len(JobOrder) :
        JobOrder[i] = j => \A k \in 1..(i - 1) : pc[JobOrder[k]] # "idle"

SetRow(j, row) == [id \in DOMAIN jobs \cup {j} |-> IF id = j THEN row ELSE jobs[id]]

Goto(j, label) == pc' = [pc EXCEPT ![j] = label]

Init ==
    /\ source = [j \in JobIds |-> <<>>]
    /\ pc = [j \in JobIds |-> "idle"]
    /\ jobs = EmptyTable
    /\ events = EmptyTable
    /\ lineNumber = [j \in JobIds |-> 0]
    /\ eventData = [j \in JobIds |-> NoEvent]
    /\ errorMessage = [j \in JobIds |-> NoMessage]
    /\ errSnap = [j \in JobIds |-> <<>>]
    /\ fatal = [j \in JobIds |-> "none"]
    /\ returned = [j \in JobIds |-> FALSE]
    /\ clock = 0
    /\ snapshot = NoSnapshot
    /\ completed = NoCalls
    /\ response = NoResponse

\* startIngestion: count the lines, insert the job row, call processFile (which runs
\* to its first await) and return the job id.
StartIngestion(j, f) ==
    /\ pc[j] = "idle"
    /\ MayStart(j)
    /\ source' = [source EXCEPT ![j] = f]
    /\ jobs' = SetRow(j, JobCreateRow(countFileLines(f)))
    /\ returned' = [returned EXCEPT ![j] = TRUE]
    /\ Goto(j, "updateProcessing")
    /\ UNCHANGED <<events, lineNumber, eventData, errorMessage, errSnap, fatal,
                   clock, snapshot, completed, response>>

\* startIngestion throws: countFileLines rejects (the source cannot be read, cause
\* "stream"), or IngestionJob.create does (cause "store").  No row is inserted.
StartRejected(j, f, cause) ==
    /\ pc[j] = "idle"
    /\ MayStart(j)
    /\ source' = [source EXCEPT ![j] = f]
    /\ fatal' = [fatal EXCEPT ![j] = cause]
    /\ Goto(j, "rejected")
    /\ UNCHANGED <<jobs, events, lineNumber, eventData, errorMessage, errSnap,
                   returned, clock, snapshot, completed, response>>

\* processFile rejects with `cause`: the .catch handler of startIngestion calls
\* IngestionJob.markFailed(jobId, error.message).
Reject(j, cause) ==
    /\ fatal' = [fatal EXCEPT ![j] = cause]
    /\ errorMessage' = [errorMessage EXCEPT ![j] = FatalMessage(cause)]
    /\ errSnap' = [errSnap EXCEPT ![j] = <<>>]
    /\ eventData' = [eventData EXCEPT ![j] = NoEvent]
    /\ Goto(j, "markFailed.find")

\* await IngestionJob.updateStatus(jobId, 'PROCESSING')
UpdateProcessing(j) ==
    /\ pc[j] = "updateProcessing"
    /\ jobs' = SetRow(j, UpdateStatusRow(jobs[j], "PROCESSING", 0))
    /\ Goto(j, "read")
    /\ UNCHANGED <<source, events, lineNumber, eventData, errorMessage, errSnap,
                   fatal, returned, clock, snapshot, completed, response>>

UpdateProcessingFails(j) ==
    /\ pc[j] = "updateProcessing"
    /\ Reject(j, "store")
    /\ UNCHANGED <<source, jobs, events, lineNumber, returned, clock, snapshot,
                   completed, response>>

\* One iteration of `for await (const line of rl)` up to its first await.
ReadLine(j) ==
    /\ pc[j] = "read"
    /\ lineNumber[j] < Len(source[j])
    /\ LET n == lineNumber[j] + 1
           line == source[j][n]
           parsed == parseEventLine(line, n)
       IN  /\ lineNumber' = [lineNumber EXCEPT ![j] = n]
           /\ IF line.blank
              THEN UNCHANGED <<pc, eventData, errorMessage>>
              ELSE IF parsed.ok
              THEN /\ eventData' = [eventData EXCEPT ![j] = parsed.event]
                   /\ Goto(j, "create")
                   /\ UNCHANGED errorMessage
              ELSE /\ errorMessage' = [errorMessage EXCEPT ![j] = ErrorLine(n, parsed.error)]
                   /\ Goto(j, "addError.find")
                   /\ UNCHANGED eventData
    /\ UNCHANGED <<source, jobs, events, errSnap, fatal, returned, clock, snapshot,
                   completed, response>>

\* The stream is exhausted: the loop ends.
StreamEnd(j) ==
    /\ pc[j] = "read"
    /\ lineNumber[j] = Len(source[j])
    /\ Goto(j, "updateCompleted")
    /\ UNCHANGED <<source, jobs, events, lineNumber, eventData, errorMessage, errSnap,
                   fatal, returned, clock, snapshot, completed, response>>

\* The read stream fails (the file cannot be opened or read any further): the
\* iteration throws outside the try block.
StreamError(j) ==
    /\ pc[j] = "read"
    /\ Reject(j, "stream")
    /\ UNCHANGED <<source, jobs, events, lineNumber, returned, clock, snapshot,
                   completed, response>>

\* await HistoricalEvent.create(eventData)
CreateEvent(j) ==
    /\ pc[j] = "create"
    /\ RowAccepted(eventData[j])
    /\ events' = Upsert(events, eventData[j])
    /\ eventData' = [eventData EXCEPT ![j] = NoEvent]
    /\ Goto(j, "increment")
    /\ UNCHANGED <<source, jobs, lineNumber, errorMessage, errSnap, fatal, returned,
                   clock, snapshot, completed, response>>

\* A statement of the try block throws: the catch block builds the line's message.
CatchLine(j, text) ==
    /\ errorMessage' = [errorMessage EXCEPT ![j] = ErrorLine(lineNumber[j], text)]
    /\ eventData' = [eventData EXCEPT ![j] = NoEvent]
    /\ Goto(j, "addError.find")

\* HistoricalEvent.create throws: the database rejects the row, whose parent is
\* not stored (foreign key) or which breaks a CHECK constraint.
CreateEventRejected(j) ==
    /\ pc[j] = "create"
    /\ ~RowAccepted(eventData[j])
    /\ CatchLine(j, IF ForeignKeyHolds(eventData[j]) THEN "check violation"
                    ELSE "foreign key violation")
    /\ UNCHANGED <<source, jobs, events, lineNumber, errSnap, fatal, returned, clock,
                   snapshot, completed, response>>

\* HistoricalEvent.create throws: the row is rejected, or the database fails.
CreateEventFails(j) ==
    /\ pc[j] = "create"
    /\ \/ ~RowAccepted(eventData[j]) /\ CatchLine(j, "foreign key violation")
       \/ CatchLine(j, "database error")
    /\ UNCHANGED <<source, jobs, events, lineNumber, errSnap, fatal, returned, clock,
                   snapshot, completed, response>>

\* await IngestionJob.incrementProcessedLines(jobId)
IncrementProcessedLines(j) ==
    /\ pc[j] = "increment"
    /\ jobs' = SetRow(j, IncrementProcessedRow(jobs[j]))
    /\ Goto(j, "read")
    /\ UNCHANGED <<source, events, lineNumber, eventData, errorMessage, errSnap,
                   fatal, returned, clock, snapshot, completed, response>>

IncrementProcessedLinesFails(j) ==
    /\ pc[j] = "increment"
    /\ CatchLine(j, "database error")
    /\ UNCHANGED <<source, jobs, events, lineNumber, errSnap, fatal, returned, clock,
                   snapshot, completed, response>>

\* addError, first statement: const job = await this.findById(jobId); the errors
\* array of the row read is the local `errors`.
\* c is the caller (a run, or a caller of SpecTracker), jobId the row.
AddErrorFind(c, jobId, at, next) ==
    /\ pc[c] = at
    /\ errSnap' = [errSnap EXCEPT ![c] = jobs[jobId].errors]
    /\ Goto(c, next)

\* addError, second statement: the UPDATE that stores the pushed array and
\* increments error_lines.
AddErrorUpdate(c, jobId, at, next) ==
    /\ pc[c] = at
    /\ jobs' = SetRow(jobId, AddErrorRow(jobs[jobId], errSnap[c], errorMessage[c]))
    /\ errSnap' = [errSnap EXCEPT ![c] = <<>>]
    /\ errorMessage' = [errorMessage EXCEPT ![c] = NoMessage]
    /\ Goto(c, next)

\* Mutant of LineErrorUpdate: the catch block leaves the loop after recording the
\* error.
LineErrorUpdateBreaks(j) ==
    /\ AddErrorUpdate(j, j, "addError.update", "updateCompleted")
    /\ UNCHANGED <<source, events, lineNumber, eventData, fatal, returned, clock,
                   snapshot, completed, response>>

\* await IngestionJob.addError(jobId, errorMessage) in the catch block of the loop
LineErrorFind(j) ==
    /\ AddErrorFind(j, j, "addError.find", "addError.update")
    /\ UNCHANGED <<source, jobs, events, lineNumber, eventData, errorMessage, fatal,
                   returned, clock, snapshot, completed, response>>

LineErrorUpdate(j) ==
    /\ AddErrorUpdate(j, j, "addError.update", "read")
    /\ UNCHANGED <<source, events, lineNumber, eventData, fatal, returned, clock,
                   snapshot, completed, response>>

\* addError throws inside the catch block: nothing catches it in processFile.
LineErrorFails(j) ==
    /\ pc[j] \in {"addError.find", "addError.update"}
    /\ Reject(j, "store")
    /\ UNCHANGED <<source, jobs, events, lineNumber, returned, clock, snapshot,
                   completed, response>>

\* Mutant of UpdateCompleted: a statement after the final update throws, so the
\* failure handler runs on the completed job.
UpdateCompletedThenThrows(j) ==
    /\ pc[j] = "updateCompleted"
    /\ clock' = clock + 1
    /\ jobs' = SetRow(j, UpdateStatusRow(jobs[j], "COMPLETED", clock + 1))
    /\ Reject(j, "store")
    /\ UNCHANGED <<source, events, lineNumber, returned, snapshot, completed, response>>

\* await IngestionJob.updateStatus(jobId, 'COMPLETED', { end_time: new Date() })
UpdateCompleted(j) ==
    /\ pc[j] = "updateCompleted"
    /\ clock' = clock + 1
    /\ jobs' = SetRow(j, UpdateStatusRow(jobs[j], "COMPLETED", clock + 1))
    /\ Goto(j, "done")
    /\ UNCHANGED <<source, events, lineNumber, eventData, errorMessage, errSnap,
                   fatal, returned, snapshot, completed, response>>

UpdateCompletedFails(j) ==
    /\ pc[j] = "updateCompleted"
    /\ Reject(j, "store")
    /\ UNCHANGED <<source, jobs, events, lineNumber, returned, clock, snapshot,
                   completed, response>>

\* markFailed: await this.addError(jobId, errorMessage)
MarkFailedFind(j) ==
    /\ AddErrorFind(j, j, "markFailed.find", "markFailed.update")
    /\ UNCHANGED <<source, jobs, events, lineNumber, eventData, errorMessage, fatal,
                   returned, clock, snapshot, completed, response>>

\* Mutant of MarkFailedUpdate: the UPDATE of addError names the first job.
MarkFailedUpdateFirstJob(j) ==
    /\ AddErrorUpdate(j, "job1", "markFailed.update", "markFailed.status")
    /\ UNCHANGED <<source, events, lineNumber, eventData, fatal, returned, clock,
                   snapshot, completed, response>>

MarkFailedUpdate(j) ==
    /\ AddErrorUpdate(j, j, "markFailed.update", "markFailed.status")
    /\ UNCHANGED <<source, events, lineNumber, eventData, fatal, returned, clock,
                   snapshot, completed, response>>

\* markFailed: return this.updateStatus(jobId, 'FAILED', { end_time: new Date() })
MarkFailedStatus(j) ==
    /\ pc[j] = "markFailed.status"
    /\ clock' = clock + 1
    /\ jobs' = SetRow(j, UpdateStatusRow(jobs[j], "FAILED", clock + 1))
    /\ Goto(j, "done")
    /\ UNCHANGED <<source, events, lineNumber, eventData, errorMessage, errSnap,
                   fatal, returned, snapshot, completed, response>>

\* A query of markFailed throws: the promise the .catch handler dropped rejects,
\* and nothing else ever runs for the job.
MarkFailedFails(j) ==
    /\ pc[j] \in {"markFailed.find", "markFailed.update", "markFailed.status"}
    /\ errSnap' = [errSnap EXCEPT ![j] = <<>>]
    /\ errorMessage' = [errorMessage EXCEPT ![j] = NoMessage]
    /\ Goto(j, "unhandled")
    /\ UNCHANGED <<source, jobs, events, lineNumber, eventData, fatal, returned,
                   clock, snapshot, completed, response>>

\* Mutant of GetJobStatus: the query resets the counter of the row it reads.
GetJobStatusResetting(j) ==
    /\ snapshot' = IF j \in DOMAIN jobs THEN [found |-> TRUE, row |-> jobs[j]]
                   ELSE NoSnapshot
    /\ jobs' = [id \in DOMAIN jobs |->
                   IF id = j THEN [jobs[id] EXCEPT !.processed_lines = 0] ELSE jobs[id]]
    /\ UNCHANGED <<source, pc, events, lineNumber, eventData, errorMessage,
                   errSnap, fatal, returned, clock, completed, response>>

\* getJobStatus: one SELECT of the job's row (null when there is none).
GetJobStatus(j) ==
    /\ snapshot' = IF j \in DOMAIN jobs THEN [found |-> TRUE, row |-> jobs[j]]
                   ELSE NoSnapshot
    /\ UNCHANGED <<source, pc, jobs, events, lineNumber, eventData, errorMessage,
                   errSnap, fatal, returned, clock, completed, response>>

\* The steps of the run of job j.
Pipeline(j) ==
    \/ UpdateProcessing(j)
    \/ UpdateProcessingFails(j)
    \/ ReadLine(j)
    \/ StreamEnd(j)
    \/ StreamError(j)
    \/ CreateEvent(j)
    \/ CreateEventFails(j)
    \/ IncrementProcessedLines(j)
    \/ IncrementProcessedLinesFails(j)
    \/ LineErrorFind(j)
    \/ LineErrorUpdate(j)
    \/ LineErrorFails(j)
    \/ UpdateCompleted(j)
    \/ UpdateCompletedFails(j)
    \/ MarkFailedFind(j)
    \/ MarkFailedUpdate(j)
    \/ MarkFailedStatus(j)
    \/ MarkFailedFails(j)

Next ==
    \/ \E j \in Runs, f \in Files : StartIngestion(j, f)
    \/ \E j \in Runs, f \in Files, cause \in {"stream", "store"} : StartRejected(j, f, cause)
    \/ \E j \in Runs : Pipeline(j)
    \/ \E j \in Runs : GetJobStatus(j)

Spec == Init /\ [][Next]_vars

\* ------------------------------------------------- the tracker under
\* concurrent invocation: IngestionJob.addError, incrementProcessedLines and
\* getJobStatus called on one job's row by callers that do not wait for each other.

\* Invocations made in one behaviour.
MaxCalls == 3

Callers == JobIds

TrackedJob == "job1"

\* The row of a job in mid-run: created, then set to PROCESSING.
InitTracker ==
    /\ source = [j \in JobIds |-> <<>>]
    /\ pc = [j \in JobIds |-> "idle"]
    /\ \E total \in 0..MaxLines :
          jobs = [id \in {TrackedJob} |->
                     UpdateStatusRow(JobCreateRow(total), "PROCESSING", 0)]
    /\ events = EmptyTable
    /\ lineNumber = [j \in JobIds |-> 0]
    /\ eventData = [j \in JobIds |-> NoEvent]
    /\ errorMessage = [j \in JobIds |-> NoMessage]
    /\ errSnap = [j \in JobIds |-> <<>>]
    /\ fatal = [j \in JobIds |-> "none"]
    /\ returned = [j \in JobIds |-> FALSE]
    /\ clock = 0
    /\ snapshot = NoSnapshot
    /\ completed = NoCalls
    /\ response = NoResponse

\* Caller c calls IngestionJob.addError(jobId, message).
CallAddError(c) ==
    /\ pc[c] = "idle"
    /\ completed.begun < MaxCalls
    /\ completed' = [completed EXCEPT !.begun = @ + 1]
    /\ errorMessage' = [errorMessage EXCEPT ![c] = ErrorLine(completed.begun + 1, "error")]
    /\ Goto(c, "addError.find")
    /\ UNCHANGED <<source, jobs, events, lineNumber, eventData, errSnap, fatal,
                   returned, clock, snapshot, response>>

CallAddErrorFind(c) ==
    /\ AddErrorFind(c, TrackedJob, "addError.find", "addError.update")
    /\ UNCHANGED <<source, jobs, events, lineNumber, eventData, errorMessage, fatal,
                   returned, clock, snapshot, completed, response>>

\* The UPDATE of addError; the invocation is completed.
CallAddErrorUpdate(c) ==
    /\ AddErrorUpdate(c, TrackedJob, "addError.update", "idle")
    /\ completed' = [completed EXCEPT !.adds = @ \cup {errorMessage[c]}]
    /\ UNCHANGED <<source, events, lineNumber, eventData, fatal, returned, clock,
                   snapshot, response>>

\* Caller c calls IngestionJob.incrementProcessedLines(jobId): one UPDATE.
CallIncrementProcessedLines(c) ==
    /\ pc[c] = "idle"
    /\ completed.begun < MaxCalls
    /\ completed' = [completed EXCEPT !.begun = @ + 1, !.incs = @ + 1]
    /\ jobs' = SetRow(TrackedJob, IncrementProcessedRow(jobs[TrackedJob]))
    /\ UNCHANGED <<source, pc, events, lineNumber, eventData, errorMessage, errSnap,
                   fatal, returned, clock, snapshot, response>>

NextTracker ==
    \/ \E c \in Callers : CallAddError(c)
    \/ \E c \in Callers : CallAddErrorFind(c)
    \/ \E c \in Callers : CallAddErrorUpdate(c)
    \/ \E c \in Callers : CallIncrementProcessedLines(c)
    \/ GetJobStatus(TrackedJob)

SpecTracker == InitTracker /\ [][NextTracker]_vars

\* ------------------------------------------------- concurrent runs over
\* ------------------------------------------------- one repository

\* Longest source file of the concurrent runs, in lines.
MaxRepoLines == 2

\* e1 again, every field changed, as a child of e2.
RevisedLine == Line(FALSE, 7, "e1", "Omega ", 30, 200, "e2", <<TRUE, 8>>, " revised")

\* e2 as its own parent.
SelfLine == Line(FALSE, 7, "e2", "Gamma", 10, 75, "e2", <<TRUE, 1>>, "loop")

RepoLines == {RootLine, ChildLine, RevisedLine, SelfLine}

RepoFiles == SeqsUpTo(RepoLines, MaxRepoLines)

\* The steps of processFile when no statement fails but an INSERT the
\* constraints of historical_events reject.
PipelineRepo(j) ==
    \/ UpdateProcessing(j)
    \/ ReadLine(j)
    \/ StreamEnd(j)
    \/ CreateEvent(j)
    \/ CreateEventRejected(j)
    \/ IncrementProcessedLines(j)
    \/ LineErrorFind(j)
    \/ LineErrorUpdate(j)
    \/ UpdateCompleted(j)

\* Two ingestion runs at once, each on a file of its own.
NextRepo ==
    \/ \E j \in JobIds, f \in RepoFiles : StartIngestion(j, f)
    \/ \E j \in JobIds : PipelineRepo(j)

SpecRepo == Init /\ [][NextRepo]_vars

\* POST /api/events/ingest again with the same file, once the run before is over.
StartRerun(j, f) ==
    /\ \A k \in JobIds \ {j} : pc[k] \in {"idle", "done"}
    /\ \A k \in JobIds \ {j} : pc[k] = "done" => f = source[k]
    /\ StartIngestion(j, f)

\* One run after the other, over the same unchanged source.
NextRerun ==
    \/ \E j \in JobIds, f \in RepoFiles : StartRerun(j, f)
    \/ \E j \in JobIds : PipelineRepo(j)

SpecRerun == Init /\ [][NextRerun]_vars

\* ------------------------------------------------- concurrent runs and
\* ------------------------------------------------- their job records

\* The files of the runs that may fail.
JobFiles == {<<ShortLine>>, <<RootLine>>, <<ShortLine, RootLine>>}

\* Two ingestion runs at once, any statement of which may fail.
NextJobs ==
    \/ \E j \in JobIds, f \in JobFiles : StartIngestion(j, f)
    \/ \E j \in JobIds : Pipeline(j)

SpecJobs == Init /\ [][NextJobs]_vars

\* ------------------------------------------------- lines of any number
\* ------------------------------------------------- of fields

\* A line of eight fields: the description holds a '|'.
LongLine == Line(FALSE, 8, "e2", "Beta", 60, 180, "e1", <<TRUE, 3>>, "second")

FieldLines == {BlankLine, ShortLine, RootLine, LongLine}

FieldFiles == SeqsUpTo(FieldLines, MaxLines)

\* One run over a file whose lines have 1, 3, 7 or 8 fields.
NextFields ==
    \/ \E f \in FieldFiles : StartIngestion("job1", f)
    \/ PipelineRepo("job1")

SpecFields == Init /\ [][NextFields]_vars

\* ------------------------------------------------- the analytics queries
\* ------------------------------------------------- (HistoricalEvent.js,
\* ------------------------------------------------- timelineService.js,
\* ------------------------------------------------- insightsService.js)

\* The intervals of the stored events, in seconds: an hour, one that overlaps it
\* by half an hour, one that starts where the first ends, and a short one across
\* that instant (90 seconds of the first, 40 seconds of the third), and ten
\* minutes at the start of the first.
Intervals == {<<0, 3600>>, <<1800, 5400>>, <<3600, 7200>>, <<3510, 3640>>, <<0, 600>>}

\* The ranges findTemporalGaps is asked about: startDate, endDate.
Ranges == {<<0, 7200>>, <<0, 5400>>, <<600, 7200>>}

\* The row HistoricalEvent.create stores for a valid line.
EventRow(id, parent, iv) ==
    [event_id |-> id, event_name |-> id, description |-> "", start_date |-> iv[1],
     end_date |-> iv[2], duration_minutes |-> durationMinutes(iv[1], iv[2]),
     parent_event_id |-> parent, research_value |-> 1, line_number |-> 1]

\* The states of historical_events the queries are run on: any set of ids, each
\* event with any interval and any parent that is stored (or none).  Each is
\* reached by ingestion: the events are first stored as roots, then stored again
\* with their parents, which the foreign key accepts.
Tables ==
    UNION {{[id \in S |-> EventRow(id, c[id][1], c[id][2])] :
               c \in [S -> (S \cup {Null}) \X Intervals]} :
           S \in SUBSET EventIds}

\* The order PostgreSQL returns rows in when ORDER BY leaves it open.
TieOrders ==
    {o \in [1..Cardinality(EventIds) -> EventIds] :
        \A i, k \in DOMAIN o : o[i] = o[k] => i = k}

Position(ord, id) == CHOOSE i \in DOMAIN ord : ord[i] = id

\* SELECT * FROM historical_events WHERE event_id = $1
findEventById(table, eventId) ==
    IF eventId \in DOMAIN table THEN table[eventId] ELSE NoEvent

\* Mutant of findAllDirectChildren: ORDER BY start_date DESC.
findAllDirectChildrenDesc(table, ord, parentId) ==
    LET ids == {id \in DOMAIN table : table[id].parent_event_id = parentId}
        before(a, b) ==
            \/ table[a].start_date > table[b].start_date
            \/ /\ table[a].start_date = table[b].start_date
               /\ Position(ord, a) < Position(ord, b)
    IN  [i \in 1..Cardinality(ids) |->
            table[CHOOSE id \in ids :
                      Cardinality({x \in ids : before(x, id)}) = i - 1]]

\* SELECT * FROM historical_events WHERE parent_event_id = $1
\* ORDER BY start_date ASC; rows of equal start_date come in the order ord.
findAllDirectChildren(table, ord, parentId) ==
    LET ids == {id \in DOMAIN table : table[id].parent_event_id = parentId}
        before(a, b) ==
            \/ table[a].start_date < table[b].start_date
            \/ /\ table[a].start_date = table[b].start_date
               /\ Position(ord, a) < Position(ord, b)
    IN  [i \in 1..Cardinality(ids) |->
            table[CHOOSE id \in ids :
                      Cardinality({x \in ids : before(x, id)}) = i - 1]]

\* The value of a buildTreeHierarchy call that never resolves.
Unbounded == [event |-> [NoEvent EXCEPT !.event_id = "<unbounded>"], children |-> <<>>]

\* return null
NullTree == [event |-> NoEvent, children |-> <<>>]

Resolves(tree) == tree.event.event_id # Unbounded.event.event_id

\* buildTreeHierarchy(eventId): null when the event is not stored, else the event
\* with the trees of its children.  The code keeps no record of the descent;
\* `path` is the chain of calls above this one.  A call for an id that is on
\* that chain makes the calls below it again, and so on without end: the call,
\* and every call awaiting it, never resolves.
RECURSIVE buildTreeHierarchy(_, _, _, _)
buildTreeHierarchy(table, ord, eventId, path) ==
    IF eventId \notin DOMAIN table THEN NullTree
    ELSE IF \E i \in DOMAIN path : path[i] = eventId THEN Unbounded
    ELSE LET children == findAllDirectChildren(table, ord, eventId)
             childrenTrees ==
                 [i \in DOMAIN children |->
                     buildTreeHierarchy(table, ord, children[i].event_id,
                                        Append(path, eventId))]
         IN  IF \E i \in DOMAIN childrenTrees : ~Resolves(childrenTrees[i])
             THEN Unbounded
             ELSE [event |-> findEventById(table, eventId), children |-> childrenTrees]

\* TimelineService.getTimeline: throws 'Event not found' when the tree is null.
getTimeline(table, ord, eventId) ==
    LET tree == buildTreeHierarchy(table, ord, eventId, <<>>)
    IN  [op |-> "getTimeline", eventId |-> eventId,
         outcome |-> IF ~Resolves(tree) THEN "recursion without bound"
                     ELSE IF tree = NullTree THEN "Event not found"
                     ELSE "tree",
         tree |-> tree]

\* Mutant of Traverse: the join follows eg.parent_event_id = he.event_id.
RECURSIVE TraverseToParents(_, _)
TraverseToParents(table, found) ==
    LET parents(eg) ==
            {he \in DOMAIN table :
                /\ table[eg.event_id].parent_event_id = he
                /\ ~\E i \in DOMAIN eg.path : eg.path[i] = he}
        next == UNION {{[event_id |-> id,
                         path |-> Append(eg.path, id),
                         total_duration |->
                             eg.total_duration + table[id].duration_minutes] :
                           id \in parents(eg)} : eg \in found}
    IN  IF next = {} THEN found ELSE found \cup TraverseToParents(table, next)

\* One step of the recursive term of event_graph: the children of the rows found
\* last that are not on the row's path, and all that follows from them.
RECURSIVE Traverse(_, _)
Traverse(table, found) ==
    LET children(eg) ==
            {he \in DOMAIN table :
                /\ table[he].parent_event_id = eg.event_id
                /\ ~\E i \in DOMAIN eg.path : eg.path[i] = he}
        next == UNION {{[event_id |-> id,
                         path |-> Append(eg.path, id),
                         total_duration |->
                             eg.total_duration + table[id].duration_minutes] :
                           id \in children(eg)} : eg \in found}
    IN  IF next = {} THEN found ELSE found \cup Traverse(table, next)

\* Mutant of event_graph: the row of the source starts with total_duration 0.
event_graphFromZero(table, sourceEventId) ==
    IF sourceEventId \notin DOMAIN table THEN {}
    ELSE Traverse(table, {[event_id |-> sourceEventId,
                           path |-> <<sourceEventId>>,
                           total_duration |-> 0]})

\* WITH RECURSIVE event_graph: the rows of the descent from the source.
event_graph(table, sourceEventId) ==
    IF sourceEventId \notin DOMAIN table THEN {}
    ELSE Traverse(table, {[event_id |-> sourceEventId,
                           path |-> <<sourceEventId>>,
                           total_duration |-> table[sourceEventId].duration_minutes]})

\* return null
NoPath == [shortestPath |-> <<>>, totalDurationMinutes |-> -1]

\* findShortestPath: the results the query may give (LIMIT 1 takes any row of
\* the least total_duration).
findShortestPath(table, sourceEventId, targetEventId) ==
    LET rows == {eg \in event_graph(table, sourceEventId) : eg.event_id = targetEventId}
        first == {eg \in rows : \A other \in rows :
                                    eg.total_duration <= other.total_duration}
    IN  IF rows = {} THEN {NoPath}
        ELSE {[shortestPath |->
                   [i \in DOMAIN pathData.path |->
                       [event_id |-> pathData.path[i],
                        event_name |-> table[pathData.path[i]].event_name,
                        duration_minutes |-> table[pathData.path[i]].duration_minutes]],
               totalDurationMinutes |-> pathData.total_duration] : pathData \in first}

\* InsightsService.getEventInfluence
getEventInfluence(sourceEventId, targetEventId, result) ==
    IF result = NoPath
    THEN [op |-> "getEventInfluence", sourceEventId |-> sourceEventId,
          targetEventId |-> targetEventId, shortestPath |-> <<>>,
          totalDurationMinutes |-> 0,
          message |-> "No temporal path found from source to target event."]
    ELSE [op |-> "getEventInfluence", sourceEventId |-> sourceEventId,
          targetEventId |-> targetEventId, shortestPath |-> result.shortestPath,
          totalDurationMinutes |-> result.totalDurationMinutes,
          message |-> "Shortest temporal path found from source to target event."]

\* The order of the uuid type.
UuidOrder == <<"e1", "e2", "e3">>

\* Mutant of JoinCondition: ON e1.event_id <> e2.event_id
JoinConditionDistinct(e1, e2) == e1.event_id # e2.event_id

\* JOIN historical_events e2 ON e1.event_id < e2.event_id
JoinCondition(e1, e2) ==
    Position(UuidOrder, e1.event_id) < Position(UuidOrder, e2.event_id)

Least(a, b) == IF a <= b THEN a ELSE b

Greatest(a, b) == IF a >= b THEN a ELSE b

\* EXTRACT(EPOCH FROM (LEAST(ends) - GREATEST(starts))): overlap_minutes times 60.
OverlapSeconds(e1, e2) ==
    Least(e1.end_date, e2.end_date) - Greatest(e1.start_date, e2.start_date)

\* Math.round of seconds / 60, for a positive number of seconds.
RoundMinutes(seconds) == (2 * seconds + SecondsPerMinute) \div (2 * SecondsPerMinute)

\* The rows of event_pairs with overlap_minutes > 0.
event_pairs(table) ==
    {p \in (DOMAIN table) \X (DOMAIN table) :
        /\ JoinCondition(table[p[1]], table[p[2]])
        /\ table[p[1]].start_date < table[p[2]].end_date
        /\ table[p[2]].start_date < table[p[1]].end_date
        /\ OverlapSeconds(table[p[1]], table[p[2]]) > 0}

\* findOverlappingEvents: the rows ORDER BY overlap_minutes DESC (rows of equal
\* overlap in the order ord gives), mapped to the entries returned.
findOverlappingEvents(table, ord) ==
    LET rows == event_pairs(table)
        overlap(p) == OverlapSeconds(table[p[1]], table[p[2]])
        before(p, q) ==
            \/ overlap(p) > overlap(q)
            \/ /\ overlap(p) = overlap(q)
               /\ \/ Position(ord, p[1]) < Position(ord, q[1])
                  \/ p[1] = q[1] /\ Position(ord, p[2]) < Position(ord, q[2])
        brief(e) == [event_id |-> e.event_id, event_name |-> e.event_name,
                     start_date |-> e.start_date, end_date |-> e.end_date]
        row(i) == CHOOSE p \in rows : Cardinality({q \in rows : before(q, p)}) = i - 1
    IN  [i \in 1..Cardinality(rows) |->
            [overlappingEventPairs |-> <<brief(table[row(i)[1]]), brief(table[row(i)[2]])>>,
             overlap_duration_minutes |-> RoundMinutes(overlap(row(i)))]]

\* WITH ordered_events: the events that lie within the range.
ordered_events(table, startDate, endDate) ==
    {id \in DOMAIN table :
        table[id].start_date >= startDate /\ table[id].end_date <= endDate}

\* EXTRACT(EPOCH FROM (e2.start_date - e1.end_date)): gap_minutes times 60.
GapSeconds(e1, e2) == e2.start_date - e1.end_date

\* The rows of gaps with gap_minutes > 0: e2 starts after e1 ends and no event
\* of the range starts in between.
gaps(table, startDate, endDate) ==
    LET oe == ordered_events(table, startDate, endDate)
    IN  {p \in oe \X oe :
            /\ table[p[2]].start_date > table[p[1]].end_date
            /\ ~\E e3 \in oe :
                   /\ table[e3].start_date > table[p[1]].end_date
                   /\ table[e3].start_date < table[p[2]].start_date
            /\ GapSeconds(table[p[1]], table[p[2]]) > 0}

\* return null
NoGap ==
    [startOfGap |-> -1, endOfGap |-> -1, durationMinutes |-> 0,
     precedingEvent |-> [event_id |-> Null, event_name |-> "", end_date |-> -1],
     succeedingEvent |-> [event_id |-> Null, event_name |-> "", start_date |-> -1]]

\* findTemporalGaps: the results the query may give (ORDER BY gap_minutes DESC
\* LIMIT 1 takes any row of the greatest gap).
findTemporalGaps(table, startDate, endDate) ==
    LET rows == gaps(table, startDate, endDate)
        gap(p) == GapSeconds(table[p[1]], table[p[2]])
        first == {p \in rows : \A q \in rows : gap(p) >= gap(q)}
    IN  IF rows = {} THEN {NoGap}
        ELSE {[startOfGap |-> table[p[1]].end_date,
               endOfGap |-> table[p[2]].start_date,
               durationMinutes |-> RoundMinutes(gap(p)),
               precedingEvent |->
                   [event_id |-> p[1], event_name |-> table[p[1]].event_name,
                    end_date |-> table[p[1]].end_date],
               succeedingEvent |->
                   [event_id |-> p[2], event_name |-> table[p[2]].event_name,
                    start_date |-> table[p[2]].start_date]] : p \in first}

\* InsightsService.getTemporalGaps
getTemporalGaps(startDate, endDate, largestGap) ==
    [op |-> "getTemporalGaps", startDate |-> startDate, endDate |-> endDate,
     largestGap |-> largestGap,
     message |-> IF largestGap = NoGap
                 THEN "No significant temporal gaps found within the specified range, or too few events."
                 ELSE "Largest temporal gap identified."]

\* limit = 10, the default of the filters.
DefaultLimit == 10

\* searchEventsWithFilters({start_date_after, end_date_before}): the count of the
\* rows that match and the first page of them, ORDER BY start_date ASC (rows of
\* equal start_date in the order ord).
searchEventsWithFilters(table, ord, start_date_after, end_date_before) ==
    LET ids == {id \in DOMAIN table :
                   /\ table[id].start_date >= start_date_after
                   /\ table[id].end_date <= end_date_before}
        before(a, b) ==
            \/ table[a].start_date < table[b].start_date
            \/ /\ table[a].start_date = table[b].start_date
               /\ Position(ord, a) < Position(ord, b)
        row(i) == table[CHOOSE id \in ids :
                            Cardinality({x \in ids : before(x, id)}) = i - 1]
    IN  [op |-> "searchEvents", totalEvents |-> Cardinality(ids), page |-> 1,
         limit |-> DefaultLimit,
         events |-> [i \in 1..Least(Cardinality(ids), DefaultLimit) |->
                        [event_id |-> row(i).event_id,
                         event_name |-> row(i).event_name,
                         start_date |-> row(i).start_date,
                         end_date |-> row(i).end_date,
                         duration_minutes |-> row(i).duration_minutes]]]

InitQuery ==
    /\ source = [j \in JobIds |-> <<>>]
    /\ pc = [j \in JobIds |-> "idle"]
    /\ jobs = EmptyTable
    /\ events \in Tables
    /\ lineNumber = [j \in JobIds |-> 0]
    /\ eventData = [j \in JobIds |-> NoEvent]
    /\ errorMessage = [j \in JobIds |-> NoMessage]
    /\ errSnap = [j \in JobIds |-> <<>>]
    /\ fatal = [j \in JobIds |-> "none"]
    /\ returned = [j \in JobIds |-> FALSE]
    /\ clock = 0
    /\ snapshot = NoSnapshot
    /\ completed = NoCalls
    /\ response = NoResponse

\* GET /api/timeline/:rootEventId
GetTimeline(eventId, ord) ==
    /\ response = NoResponse
    /\ response' = getTimeline(events, ord, eventId)
    /\ UNCHANGED <<source, pc, jobs, events, lineNumber, eventData, errorMessage,
                   errSnap, fatal, returned, clock, snapshot, completed>>

\* GET /api/insights/event-influence?sourceEventId=..&targetEventId=..
GetEventInfluence(sourceEventId, targetEventId) ==
    /\ response = NoResponse
    /\ \E result \in findShortestPath(events, sourceEventId, targetEventId) :
          response' = getEventInfluence(sourceEventId, targetEventId, result)
    /\ UNCHANGED <<source, pc, jobs, events, lineNumber, eventData, errorMessage,
                   errSnap, fatal, returned, clock, snapshot, completed>>

\* GET /api/insights/overlapping-events
GetOverlappingEvents(ord) ==
    /\ response = NoResponse
    /\ response' = [op |-> "getOverlappingEvents",
                    entries |-> findOverlappingEvents(events, ord)]
    /\ UNCHANGED <<source, pc, jobs, events, lineNumber, eventData, errorMessage,
                   errSnap, fatal, returned, clock, snapshot, completed>>

\* GET /api/insights/temporal-gaps?startDate=..&endDate=..
GetTemporalGaps(startDate, endDate) ==
    /\ response = NoResponse
    /\ \E largestGap \in findTemporalGaps(events, startDate, endDate) :
          response' = getTemporalGaps(startDate, endDate, largestGap)
    /\ UNCHANGED <<source, pc, jobs, events, lineNumber, eventData, errorMessage,
                   errSnap, fatal, returned, clock, snapshot, completed>>

\* GET /api/events/search?start_date_after=..&end_date_before=..
SearchEvents(start_date_after, end_date_before, ord) ==
    /\ response = NoResponse
    /\ response' = searchEventsWithFilters(events, ord, start_date_after,
                                           end_date_before)
    /\ UNCHANGED <<source, pc, jobs, events, lineNumber, eventData, errorMessage,
                   errSnap, fatal, returned, clock, snapshot, completed>>

\* The analytics and search queries.
Query ==
    \/ \E eventId \in EventIds, ord \in TieOrders : GetTimeline(eventId, ord)
    \/ \E sourceEventId, targetEventId \in EventIds :
          GetEventInfluence(sourceEventId, targetEventId)
    \/ \E ord \in TieOrders : GetOverlappingEvents(ord)
    \/ \E range \in Ranges : GetTemporalGaps(range[1], range[2])
    \/ \E range \in Ranges, ord \in TieOrders : SearchEvents(range[1], range[2], ord)

\* The queries run on a repository no ingestion is writing to.  A query reads
\* the repository only, so its answer does not depend on the queries before it:
\* each behaviour asks one.
NextQuery == Query

SpecQuery == InitQuery /\ [][NextQuery]_vars

\* One ingestion run, with the queries and the status query answered at any
\* point of it.  Each query is one step: it reads the tables as they are then.
NextMixed ==
    \/ \E f \in RepoFiles : StartIngestion("job1", f)
    \/ PipelineRepo("job1")
    \/ Query
    \/ \E j \in JobIds : GetJobStatus(j)

SpecMixed == Init /\ [][NextMixed]_vars

\* ------------------------------------------------- properties

BlankLines(f) == {n \in 1..Len(f) : f[n].blank}

\* The lines that reach parseEventLine and fail validation.
InvalidLines(f) == {n \in 1..Len(f) : ~f[n].blank /\ ~parseEventLine(f[n], n).ok}

ValidLines(f) == {n \in 1..Len(f) : ~f[n].blank /\ parseEventLine(f[n], n).ok}

\* The line numbers the entries of a row's errors are about.
ErrorLineNumbers(row) == {row.errors[i].line : i \in 1..Len(row.errors)}

\* The entries recorded because the repository or the job store rejected a
\* statement for a line that had passed validation.
StoreRejections(row) ==
    Cardinality({i \in 1..Len(row.errors) :
        row.errors[i].text \in {"foreign key violation", "database error"}})

AllowedTransitions ==
    {<<"PENDING", "PROCESSING">>, <<"PROCESSING", "COMPLETED">>,
     <<"PROCESSING", "FAILED">>}

\* C1 (as claimed): a job's status changes only along PENDING -> PROCESSING,
\* PROCESSING -> COMPLETED and PROCESSING -> FAILED, also when a job-store
\* operation of the run fails.
C1_StatusTransitions ==
    [][\A j \in DOMAIN jobs :
          jobs'[j].status # jobs[j].status
              => <<jobs[j].status, jobs'[j].status>> \in AllowedTransitions]_vars

\* C2: once a job's status is COMPLETED or FAILED, no field of its row changes in
\* any later step.
C2_TerminalImmutable ==
    [][\A j \in DOMAIN jobs :
          jobs[j].status \in Terminal => jobs'[j] = jobs[j]]_vars

\* A status query has read a FAILED job that carries a line error and the fatal
\* message: steps were taken after the job became terminal.
C2_Witness ==
    /\ "job1" \in DOMAIN jobs
    /\ jobs["job1"].status = "FAILED"
    /\ Len(jobs["job1"].errors) >= 2
    /\ snapshot.found /\ snapshot.row = jobs["job1"]

\* C3: a line that fails validation never rejects processFile (only a stream or
\* store error does, and only then is the job FAILED) and never stops the run: a
\* run that meets no fatal error reads every line, ends COMPLETED, has an error
\* entry for every invalid line and has counted every valid line that the
\* repository did not reject as processed.
C3_ErrorTolerance ==
    \A j \in Runs :
        /\ fatal[j] \in {"none", "stream", "store"}
        /\ (j \in DOMAIN jobs /\ jobs[j].status = "FAILED") => fatal[j] # "none"
        /\ (pc[j] = "done" /\ fatal[j] = "none") =>
              /\ jobs[j].status = "COMPLETED"
              /\ lineNumber[j] = Len(source[j])
              /\ InvalidLines(source[j]) \subseteq ErrorLineNumbers(jobs[j])
              /\ jobs[j].processed_lines =
                    Cardinality(ValidLines(source[j]) \ ErrorLineNumbers(jobs[j]))

\* An invalid line, then a valid one, then another invalid one: the job is
\* COMPLETED and the valid line was processed.
C3_Witness ==
    /\ source["job1"] = <<ShortLine, RootLine, ShortLine>>
    /\ pc["job1"] = "done"
    /\ jobs["job1"].status = "COMPLETED"
    /\ jobs["job1"].processed_lines = 1
    /\ jobs["job1"].error_lines = 2

\* C4 (as claimed): a COMPLETED job over a file with N lines of which K fail
\* validation has processedLines = N-K, errorLines = K, totalLines = N.
C4_Original ==
    \A j \in DOMAIN jobs :
        jobs[j].status = "COMPLETED" =>
            LET N == Len(source[j])
                K == Cardinality(InvalidLines(source[j]))
            IN  /\ jobs[j].processed_lines = N - K
                /\ jobs[j].error_lines = K
                /\ jobs[j].total_lines = N

\* C4 (amended): a run that meets no fatal error ends COMPLETED, and a COMPLETED
\* job over a file with N lines of which B are blank and K fail validation, R of
\* whose valid lines were rejected by the store, has totalLines = N,
\* errorLines = K + R and processedLines = N - B - K - R.
C4_Counts ==
    \A j \in DOMAIN jobs :
        /\ (pc[j] = "done" /\ fatal[j] = "none") => jobs[j].status = "COMPLETED"
        /\ jobs[j].status = "COMPLETED" =>
            LET N == Len(source[j])
                B == Cardinality(BlankLines(source[j]))
                K == Cardinality(InvalidLines(source[j]))
                R == StoreRejections(jobs[j])
            IN  /\ jobs[j].total_lines = N
                /\ jobs[j].error_lines = K + R
                /\ jobs[j].processed_lines = N - B - K - R

\* A COMPLETED job over a file with a blank, an invalid and a valid line.
C4_Witness ==
    /\ "job1" \in DOMAIN jobs
    /\ source["job1"] = <<BlankLine, ShortLine, RootLine>>
    /\ jobs["job1"].status = "COMPLETED"
    /\ jobs["job1"].processed_lines = 1
    /\ jobs["job1"].error_lines = 1
    /\ jobs["job1"].total_lines = 3

\* C5 (as claimed): in every reachable state of every job,
\* processedLines + errorLines <= totalLines, also for jobs that end FAILED.
C5_CounterBound ==
    \A j \in DOMAIN jobs :
        jobs[j].processed_lines + jobs[j].error_lines <= jobs[j].total_lines

\* C6: every job snapshot a status query reads during a pipeline run has
\* errorLines equal to the number of entries of errors.
C6_SnapshotConsistent ==
    snapshot.found => snapshot.row.error_lines = Len(snapshot.row.errors)

\* A status query read the job in mid-run, after an error was recorded.
C6_Witness ==
    /\ snapshot.found
    /\ snapshot.row.status = "PROCESSING"
    /\ snapshot.row.error_lines >= 1
    /\ pc["job1"] = "create"

\* C7 (as claimed): appendError and incrementProcessed lose no update under
\* concurrent invocation: when k appendError and m incrementProcessed
\* invocations have completed and none is in flight, errorLines = k, errors
\* holds all k messages and processedLines = m.
C7_NoLostUpdate ==
    LET row == jobs[TrackedJob]
        k == Cardinality(completed.adds)
        m == completed.incs
    IN  (\A c \in Callers : pc[c] = "idle") =>
            /\ row.error_lines = k
            /\ Len(row.errors) = k
            /\ completed.adds \subseteq {row.errors[i] : i \in 1..Len(row.errors)}
            /\ row.processed_lines = m

\* C8 (as claimed, in the form a finite run refutes): once nothing is left to run
\* for a created job, the job is COMPLETED or FAILED.
C8_EndsTerminal ==
    \A j \in DOMAIN jobs :
        pc[j] \in {"done", "unhandled"} => jobs[j].status \in Terminal

\* C9 (as claimed): when the source cannot be read at all or a stream error
\* interrupts the run, the job ends FAILED with the fatal message as the last
\* entry of errors and with endTime stamped.
C9_FatalRecorded ==
    \A j \in Runs :
        (fatal[j] = "stream" /\ pc[j] \in {"done", "unhandled", "rejected"}) =>
            /\ j \in DOMAIN jobs
            /\ jobs[j].status = "FAILED"
            /\ Len(jobs[j].errors) > 0
            /\ jobs[j].errors[Len(jobs[j].errors)] = FatalMessage("stream")
            /\ jobs[j].end_time # 0

\* C10: in the step in which startIngestion returns the job id, the job's row
\* exists with totalLines equal to the source's line count, and no line has been
\* processed: the job is PENDING, the run stands before its first status update.
C10_StartReturns ==
    [][\A j \in Runs :
          (~returned[j] /\ returned'[j]) =>
              /\ j \in DOMAIN jobs'
              /\ jobs'[j].total_lines = Len(source'[j])
              /\ jobs'[j].status = "PENDING"
              /\ jobs'[j].processed_lines = 0 /\ jobs'[j].error_lines = 0
              /\ lineNumber'[j] = 0
              /\ pc'[j] = "updateProcessing"]_vars

\* startIngestion has returned for a three-line source and no line is processed.
C10_Witness ==
    /\ returned["job1"]
    /\ Len(source["job1"]) = 3
    /\ jobs["job1"].status = "PENDING"
    /\ jobs["job1"].total_lines = 3
    /\ lineNumber["job1"] = 0

\* C11: in every reachable state a job's endTime is set if and only if its
\* status is COMPLETED or FAILED (it is stamped by the statement that makes the
\* job terminal).
C11_EndTimeIffTerminal ==
    \A j \in DOMAIN jobs : (jobs[j].end_time # 0) <=> (jobs[j].status \in Terminal)

\* A job made FAILED by the failure handler after a line was processed.
C11_Witness ==
    /\ "job1" \in DOMAIN jobs
    /\ jobs["job1"].status = "FAILED"
    /\ jobs["job1"].end_time # 0
    /\ jobs["job1"].processed_lines >= 1

\* C12: every stored event ends strictly after it starts, and its
\* durationMinutes is the floor of (end - start) in minutes, computed from the
\* start and end it is stored with now, and is not negative.
C12_DurationFromStoredDates ==
    \A id \in DOMAIN events :
        /\ events[id].end_date > events[id].start_date
        /\ events[id].duration_minutes >= 0
        /\ events[id].duration_minutes * SecondsPerMinute
               <= events[id].end_date - events[id].start_date
        /\ (events[id].duration_minutes + 1) * SecondsPerMinute
               > events[id].end_date - events[id].start_date

\* e1 was stored with 90 seconds (1 minute) and is now stored with the 170
\* seconds (2 minutes) of the line that replaced it.
C12_Witness ==
    /\ "e1" \in DOMAIN events
    /\ events["e1"].start_date = 30
    /\ events["e1"].end_date = 200
    /\ events["e1"].duration_minutes = 2
    /\ \E j \in JobIds : pc[j] = "done" /\ RootLine \in {source[j][n] : n \in 1..Len(source[j])}

\* C13 as stated: the repository never holds two events with the same id, and
\* ingesting a valid line whose id is already stored replaces every field of
\* that event with the line's values and leaves the number of stored events
\* unchanged.
C13_Original ==
    /\ [](\A id \in DOMAIN events : events[id].event_id = id)
    /\ [][\A j \in JobIds :
            (pc[j] = "create" /\ pc'[j] # "create"
               /\ eventData[j].event_id \in DOMAIN events)
            => /\ events'[eventData[j].event_id] = eventData[j]
               /\ DOMAIN events' = DOMAIN events]_vars

\* C13, amended: the repository never holds two events with the same id; when
\* a valid line whose id is already stored is ingested, the number of stored
\* events is unchanged and either the repository accepts the write and every
\* field of the event is replaced by the line's values, or it rejects the write
\* (the line's parent is not stored) and the event is left as it was, the line
\* being recorded as an error.
C13_UpsertReplaces ==
    /\ [](\A id \in DOMAIN events : events[id].event_id = id)
    /\ [][\A j \in JobIds :
            (pc[j] = "create" /\ pc'[j] # "create"
               /\ eventData[j].event_id \in DOMAIN events)
            => /\ DOMAIN events' = DOMAIN events
               /\ IF RowAccepted(eventData[j])
                  THEN /\ events'[eventData[j].event_id] = eventData[j]
                       /\ pc'[j] = "increment"
                  ELSE /\ events' = events
                       /\ pc'[j] = "addError.find"]_vars

\* A run stored e1 from line 1 and replaced it from line 2, every field of
\* which differs; e2, the new parent, was stored by the other run.
C13_Witness ==
    /\ \E j \in JobIds :
          /\ source[j] = <<RootLine, RevisedLine>>
          /\ pc[j] = "increment"
          /\ lineNumber[j] = 2
          /\ jobs[j].processed_lines = 1
    /\ DOMAIN events = {"e1", "e2"}
    /\ events["e1"] = parseEventLine(RevisedLine, 2).event

\* The repository one run over file f leaves when it starts on `table` and no
\* other run writes: each valid line the constraints accept is upserted, in file
\* order.
RECURSIVE IngestFrom(_, _, _)
IngestFrom(table, f, n) ==
    IF n > Len(f) THEN table
    ELSE LET parsed == parseEventLine(f[n], n)
             ev == parsed.event
             accepted == /\ ~f[n].blank
                         /\ parsed.ok
                         /\ ChecksHold(ev)
                         /\ \/ ev.parent_event_id \in {Null, ev.event_id}
                            \/ ev.parent_event_id \in DOMAIN table
         IN  IngestFrom(IF accepted THEN Upsert(table, ev) ELSE table, f, n + 1)

\* C14: re-running ingestion over the same unchanged source is idempotent on
\* the repository: when a second run over the source is over, the stored events
\* are those the first run left, whatever the order of parent and child lines.
C14_RerunIdempotent ==
    (\A j \in JobIds : pc[j] = "done")
        => events = IngestFrom(EmptyTable, source["job1"], 1)

\* The complete records the runs started so far have read from their sources.
RecordsRead ==
    UNION {{parseEventLine(source[j][n], n).event :
               n \in {i \in 1..lineNumber[j] : parseEventLine(source[j][i], i).ok}} :
           j \in JobIds}

\* C15: when several runs write the same event id at once, the stored event is
\* always the complete record of one single writer, never a mixture of the
\* fields of two, and each write that takes effect leaves the writer's record:
\* the last writer wins.
C15_OneWriterWins ==
    /\ [](\A id \in DOMAIN events : events[id] \in RecordsRead)
    /\ [][\A j \in JobIds :
            (pc[j] = "create" /\ pc'[j] = "increment")
            => events'[eventData[j].event_id] = eventData[j]]_vars

\* Both runs wrote e1 while the other was running; job1, started first, wrote
\* it last.
C15_Witness ==
    /\ source["job1"] = <<RootLine>>
    /\ source["job2"] = <<SelfLine, RevisedLine>>
    /\ pc["job1"] = "increment"
    /\ pc["job2"] = "increment"
    /\ lineNumber["job2"] = 2
    /\ events["e1"] = parseEventLine(RootLine, 1).event

\* C16: every stored event whose parentId is set references an event that is
\* stored, and a write whose parentId names an event that is not stored at write
\* time does not store the event.
C16_ReferentialIntegrity ==
    /\ [](\A id \in DOMAIN events :
            events[id].parent_event_id # Null
                => events[id].parent_event_id \in DOMAIN events)
    /\ [][\A j \in JobIds :
            (pc[j] = "create" /\ pc'[j] # "create"
               /\ eventData[j].parent_event_id \notin DOMAIN events \cup {Null})
            => events' = events]_vars

\* C17: buildTree(rootId) terminates on every repository state, one with a
\* cycle reachable from rootId included: it never recurses without bound.
C17_BuildTreeTerminates ==
    response.op = "getTimeline" => response.outcome # "recursion without bound"

\* The events above id on its chain of parents (id itself when the chain
\* returns to it).
RECURSIVE AncestorsOf(_, _, _)
AncestorsOf(table, id, seen) ==
    LET parent == table[id].parent_event_id
    IN  IF parent \notin DOMAIN table \/ parent \in seen THEN seen
        ELSE AncestorsOf(table, parent, seen \cup {parent})

Descendants(table, root) ==
    {id \in DOMAIN table : root \in AncestorsOf(table, id, {})}

\* The parent/child pointers contain a cycle that the descent from root meets.
CycleReachable(table, root) ==
    /\ root \in DOMAIN table
    /\ \E id \in {root} \cup Descendants(table, root) : id \in AncestorsOf(table, id, {})

\* C18: on a repository with a cycle reachable from sourceId, shortestPath
\* surfaces a StructuralIntegrityError, distinct from the no-path result; the
\* cycle is never silently ignored.
C18_CycleSurfaced ==
    (response.op = "getEventInfluence" /\ CycleReachable(events, response.sourceEventId))
        => response.message = "StructuralIntegrityError"

\* The ids of the nodes of a tree, in preorder.
RECURSIVE TreeIds(_)
RECURSIVE ForestIds(_, _)
TreeIds(tree) == <<tree.event.event_id>> \o ForestIds(tree.children, 1)
ForestIds(trees, i) ==
    IF i > Len(trees) THEN <<>> ELSE TreeIds(trees[i]) \o ForestIds(trees, i + 1)

\* Every node carries the stored event, its children are children of that
\* event, and they come by start ascending.
RECURSIVE NodesInPlace(_, _)
NodesInPlace(table, tree) ==
    /\ tree.event.event_id \in DOMAIN table
    /\ tree.event = table[tree.event.event_id]
    /\ \A i \in DOMAIN tree.children :
          /\ tree.children[i].event.parent_event_id = tree.event.event_id
          /\ NodesInPlace(table, tree.children[i])
    /\ \A i, k \in DOMAIN tree.children :
          i < k => tree.children[i].event.start_date <= tree.children[k].event.start_date

\* C19: buildTree(rootId) returns not-found when rootId is not stored;
\* otherwise, when no cycle is reachable from rootId, the tree holds exactly the
\* root and all its transitive descendants, each once and each as a child of
\* the node of its parent, the children of every node by start ascending.
C19_TreeOfDescendants ==
    response.op = "getTimeline" =>
        /\ response.eventId \notin DOMAIN events => response.outcome = "Event not found"
        /\ (response.eventId \in DOMAIN events
               /\ ~CycleReachable(events, response.eventId))
           => /\ response.outcome = "tree"
              /\ response.tree.event.event_id = response.eventId
              /\ NodesInPlace(events, response.tree)
              /\ LET ids == TreeIds(response.tree)
                 IN  /\ \A i, k \in DOMAIN ids : ids[i] = ids[k] => i = k
                     /\ {ids[i] : i \in DOMAIN ids}
                            = {response.eventId} \cup Descendants(events, response.eventId)

\* The chain e1 -> e2 -> e3: the tree of e1 has the single child e2, whose
\* single child is e3.
C19_Witness ==
    /\ response.op = "getTimeline"
    /\ response.eventId = "e1"
    /\ DOMAIN events = {"e1", "e2", "e3"}
    /\ events["e1"].parent_event_id = Null
    /\ events["e2"].parent_event_id = "e1"
    /\ events["e3"].parent_event_id = "e2"
    /\ response.outcome = "tree"
    /\ TreeIds(response.tree) = <<"e1", "e2", "e3">>
    /\ Len(response.tree.children) = 1
    /\ Len(response.tree.children[1].children) = 1

\* The intervals of two events intersect.
Intersect(a, b) == a.start_date < b.end_date /\ b.start_date < a.end_date

\* C20: findOverlaps returns exactly one entry for each unordered pair of
\* distinct stored events whose intervals intersect, and no entry for any other
\* pair: no pair twice, no event with itself, none for events that only touch or
\* are disjoint.
C20_OneEntryPerPair ==
    response.op = "getOverlappingEvents" =>
        LET entries == response.entries
            ids(i) == {entries[i].overlappingEventPairs[1].event_id,
                       entries[i].overlappingEventPairs[2].event_id}
        IN  /\ \A a, b \in DOMAIN events :
                  (a # b /\ Intersect(events[a], events[b]))
                      => Cardinality({i \in DOMAIN entries : ids(i) = {a, b}}) = 1
            /\ \A i \in DOMAIN entries :
                  \E a, b \in DOMAIN events :
                      /\ a # b
                      /\ ids(i) = {a, b}
                      /\ Intersect(events[a], events[b])
                      /\ entries[i].overlappingEventPairs[1].event_id # 
                             entries[i].overlappingEventPairs[2].event_id

\* e1 and e2 overlap, e2 and e3 overlap, e1 and e3 only touch: two entries.
C20_Witness ==
    /\ response.op = "getOverlappingEvents"
    /\ DOMAIN events = {"e1", "e2", "e3"}
    /\ events["e1"].end_date = events["e3"].start_date
    /\ Intersect(events["e1"], events["e2"])
    /\ Intersect(events["e2"], events["e3"])
    /\ Len(response.entries) = 2

\* C21: every entry of findOverlaps has overlapMinutes = floor of the overlap
\* in minutes, and overlapMinutes > 0: a pair that overlaps for less than a full
\* minute is not reported, and an overlap of 90 seconds is reported as 1 minute.
C21_OverlapFloored ==
    response.op = "getOverlappingEvents" =>
        \A i \in DOMAIN response.entries :
            LET a == response.entries[i].overlappingEventPairs[1]
                b == response.entries[i].overlappingEventPairs[2]
                seconds == Least(a.end_date, b.end_date)
                               - Greatest(a.start_date, b.start_date)
            IN  /\ response.entries[i].overlap_duration_minutes
                       = seconds \div SecondsPerMinute
                /\ response.entries[i].overlap_duration_minutes > 0

\* C22: the gap findLargestGap returns is covered by no event that lies within
\* the range: no such event starts before the end of the gap and ends after its
\* start.
C22_GapUncovered ==
    (response.op = "getTemporalGaps" /\ response.largestGap # NoGap) =>
        \A id \in ordered_events(events, response.startDate, response.endDate) :
            ~(/\ events[id].start_date < response.largestGap.endOfGap
              /\ events[id].end_date > response.largestGap.startOfGap)

\* The spans between consecutive coverage blocks of the events within the
\* range: from the end of an event to the start of a later one, with no event of
\* the range reaching into the span.
BlockGaps(table, startDate, endDate) ==
    LET oe == ordered_events(table, startDate, endDate)
    IN  {g \in {<<table[a].end_date, table[b].start_date>> : a, b \in oe} :
            /\ g[1] < g[2]
            /\ \A id \in oe :
                  ~(table[id].start_date < g[2] /\ table[id].end_date > g[1])}

\* C23: findLargestGap considers only the events within the range, returns none
\* when they form fewer than two merged coverage blocks or every gap has zero
\* length, and otherwise returns a gap whose duration is the maximum over the
\* spans between consecutive coverage blocks.
C23_LargestBlockGap ==
    response.op = "getTemporalGaps" =>
        LET spans == BlockGaps(events, response.startDate, response.endDate)
            gap == response.largestGap
        IN  IF spans = {} THEN gap = NoGap
            ELSE /\ gap # NoGap
                 /\ <<gap.startOfGap, gap.endOfGap>> \in spans
                 /\ \A g \in spans : gap.endOfGap - gap.startOfGap >= g[2] - g[1]
                 /\ gap.durationMinutes = RoundMinutes(gap.endOfGap - gap.startOfGap)

\* The sum of the stored durationMinutes of the events of a path.
RECURSIVE PathDuration(_, _, _)
PathDuration(table, path, i) ==
    IF i > Len(path) THEN 0
    ELSE table[path[i].event_id].duration_minutes + PathDuration(table, path, i + 1)

\* C24: a path shortestPath returns starts with the source event and ends with
\* the target event, every event of it is the child of the one before, and
\* totalDurationMinutes is the sum of durationMinutes over the whole path, both
\* endpoints included.
C24_PathAndSum ==
    (response.op = "getEventInfluence" /\ response.shortestPath # <<>>) =>
        LET path == response.shortestPath
        IN  /\ path[1].event_id = response.sourceEventId
            /\ path[Len(path)].event_id = response.targetEventId
            /\ \A i \in DOMAIN path :
                  /\ path[i].event_id \in DOMAIN events
                  /\ path[i].duration_minutes = events[path[i].event_id].duration_minutes
            /\ \A i \in 1..(Len(path) - 1) :
                  events[path[i + 1].event_id].parent_event_id = path[i].event_id
            /\ response.totalDurationMinutes = PathDuration(events, path, 1)

\* Two hops: e1 (10 minutes), its child e2 (60), its child e3 (2): 72 minutes.
C24_Witness ==
    /\ response.op = "getEventInfluence"
    /\ response.sourceEventId = "e1"
    /\ response.targetEventId = "e3"
    /\ Len(response.shortestPath) = 3
    /\ response.shortestPath[2].event_id = "e2"
    /\ response.totalDurationMinutes = 72

\* C25: shortestPath returns none, with an empty path and totalDurationMinutes
\* 0, whenever the source is not stored or the target is neither the source nor
\* one of its transitive descendants (an ancestor, a sibling, an unknown id).
C25_NoPath ==
    (/\ response.op = "getEventInfluence"
     /\ \/ response.sourceEventId \notin DOMAIN events
        \/ response.targetEventId \notin
               {response.sourceEventId} \cup Descendants(events, response.sourceEventId))
    => /\ response.shortestPath = <<>>
       /\ response.totalDurationMinutes = 0
       /\ response.message = "No temporal path found from source to target event."

\* The target e1 is the parent of the source e2: no path.
C25_Witness ==
    /\ response.op = "getEventInfluence"
    /\ response.sourceEventId = "e2"
    /\ response.targetEventId = "e1"
    /\ DOMAIN events = {"e1", "e2", "e3"}
    /\ events["e1"].parent_event_id = Null
    /\ events["e2"].parent_event_id = "e1"
    /\ events["e3"].parent_event_id = "e1"
    /\ response.shortestPath = <<>>
    /\ response.totalDurationMinutes = 0

\* C26: a line whose number of fields is not exactly 7, fewer or more, is
\* rejected with the insufficient-fields error: the run goes on to record the
\* error, and neither processes the line nor writes to the repository.
C26_FieldCountExact ==
    [][\A j \in JobIds :
          (/\ pc[j] = "read"
           /\ lineNumber'[j] = lineNumber[j] + 1
           /\ ~source[j][lineNumber'[j]].blank
           /\ source[j][lineNumber'[j]].nf # ExpectedFields)
          => /\ pc'[j] = "addError.find"
             /\ errorMessage'[j] = ErrorLine(lineNumber'[j], "Insufficient fields")
             /\ events' = events]_vars

\* No step changes, removes or reorders an entry of a job's errors.
ErrorsAppendOnly ==
    [][\A j \in DOMAIN jobs :
          /\ Len(jobs'[j].errors) >= Len(jobs[j].errors)
          /\ SubSeq(jobs'[j].errors, 1, Len(jobs[j].errors)) = jobs[j].errors]_vars

\* C27 as stated: a job's errors are append-only, there is exactly one entry per
\* rejected line, every entry is prefixed with the 1-based number of its line,
\* and the entries come in strictly increasing line-number order.
C27_Original ==
    /\ ErrorsAppendOnly
    /\ [](\A j \in DOMAIN jobs :
            LET errors == jobs[j].errors
            IN  /\ \A i \in DOMAIN errors : errors[i].line \in 1..lineNumber[j]
                /\ \A i, k \in DOMAIN errors : i < k => errors[i].line < errors[k].line
                /\ jobs[j].status = "COMPLETED"
                       => InvalidLines(source[j]) \subseteq ErrorLineNumbers(jobs[j]))

\* C27, amended: a job's errors are append-only; the entries about lines are
\* prefixed with the 1-based number of a non-blank line already read, come in
\* strictly increasing line-number order (so at most one per line), and a
\* COMPLETED job has one for every line that failed validation; the fatal
\* message the failure handler appends carries no line number and is the last
\* entry.
C27_ErrorsOrdered ==
    /\ ErrorsAppendOnly
    /\ [](\A j \in DOMAIN jobs :
            LET errors == jobs[j].errors
            IN  /\ \A i \in DOMAIN errors :
                      IF errors[i] = FatalMessage(fatal[j])
                      THEN i = Len(errors) /\ fatal[j] # "none"
                      ELSE /\ errors[i].line \in 1..lineNumber[j]
                           /\ ~source[j][errors[i].line].blank
                /\ \A i, k \in DOMAIN errors :
                      (i < k /\ errors[k].line # 0) => errors[i].line < errors[k].line
                /\ jobs[j].status = "COMPLETED"
                       => InvalidLines(source[j]) \subseteq ErrorLineNumbers(jobs[j]))

\* Two lines were rejected and recorded, then the stream failed: the entries of
\* lines 1 and 2 are followed by the fatal message.
C27_Witness ==
    /\ "job1" \in DOMAIN jobs
    /\ jobs["job1"].status = "FAILED"
    /\ Len(jobs["job1"].errors) = 3
    /\ jobs["job1"].errors[1].line = 1
    /\ jobs["job1"].errors[2].line = 2
    /\ jobs["job1"].errors[3] = FatalMessage("stream")

\* C28: the analytics and search queries and the job status query leave the
\* event repository and every job record unchanged, whatever they answer and
\* also when they run in the middle of an ingestion run.
C28_QueriesReadOnly ==
    [][(response' # response \/ snapshot' # snapshot)
          => (events' = events /\ jobs' = jobs)]_vars

\* buildTree(e1) was answered (e1 without children) in the middle of a run that
\* has since stored e2 as a child of e1, and the status query was answered too.
C28_Witness ==
    /\ response.op = "getTimeline"
    /\ response.eventId = "e1"
    /\ response.outcome = "tree"
    /\ response.tree.children = <<>>
    /\ "e2" \in DOMAIN events
    /\ events["e2"].parent_event_id = "e1"
    /\ snapshot.found
    /\ snapshot.row.status = "PROCESSING"
    /\ snapshot.row.processed_lines = 1

\* C29: when several ingestion jobs run at once, every step of the run of a job
\* (its failure handler included) leaves the record of every other job
\* unchanged, and two runs over the same source have distinct job records.
C29_OwnRecordOnly ==
    /\ [][\A j \in JobIds :
            (pc'[j] # pc[j] \/ lineNumber'[j] # lineNumber[j])
            => \A k \in DOMAIN jobs \ {j} : k \in DOMAIN jobs' /\ jobs'[k] = jobs[k]]_vars
    /\ [](\A j \in JobIds : pc[j] # "idle" => j \in DOMAIN jobs)

\* Two runs over the same file ran at once: the first met a fatal error and is
\* FAILED with its message, the second is COMPLETED with its own counters.
C29_Witness ==
    /\ source["job1"] = <<ShortLine, RootLine>>
    /\ source["job2"] = source["job1"]
    /\ DOMAIN jobs = {"job1", "job2"}
    /\ jobs["job1"].status = "FAILED"
    /\ jobs["job1"].errors = <<FatalMessage("stream")>>
    /\ jobs["job2"].status = "COMPLETED"
    /\ jobs["job2"].processed_lines = 1
    /\ jobs["job2"].error_lines = 1
    /\ jobs["job2"].end_time < jobs["job1"].end_time

====
